---- MODULE Spec2Model ----
(***************************************************************************)
(* Cloth simulation of Dynamic-Mesh-Manipulation (Three.js).               *)
(*                                                                         *)
(* Two physics implementations live in the repository:                     *)
(*   - ClothPhysics (src/src/main.js): pivots, wind, organic/segment cuts  *)
(*   - Cloth        (src/src/cloth.js): relax-before-start, tearing        *)
(* The variable impl says which of the two a behaviour runs.               *)
(*                                                                         *)
(* Numbers are fixed point.  A length of 1.0 is Unit model units, so the   *)
(* program's particle spacing 5/30 is Unit \div 6 units.  cutFactor and    *)
(* stiffness are in units of 1/Scale.  Time is in milliseconds.  Forces    *)
(* are in units of 1e-4.                                                   *)
(***************************************************************************)
EXTENDS Integers, Sequences, FiniteSets, TLC

VARIABLES impl, particles, constraints, cutParticles, pivotPoints, time,
          needsRebuild, indices,
          clothParticles, clothConstraints, physicsEnabled, returned,
          cmd, prevCmd, steps

vars == <<impl, particles, constraints, cutParticles, pivotPoints, time,
          needsRebuild, indices,
          clothParticles, clothConstraints, physicsEnabled, returned,
          cmd, prevCmd, steps>>

meshVars == <<needsRebuild, indices>>
physicsVars == <<particles, constraints, cutParticles, pivotPoints, time,
                 meshVars>>
clothVars == <<clothParticles, clothConstraints, physicsEnabled, returned>>

\* ------------------------------------------------------------------ bounds
MaxSteps == 3
segmentsX == 2
segmentsY == 1
MaxPivots == 4
clothSegmentsX == 3
clothSegmentsY == 1

\* ------------------------------------------------------- number representation
Unit == 6000
Scale == 10000

\* ------------------------------------------------------------- arithmetic
Abs(a) == IF a < 0 THEN -a ELSE a
Min(a, b) == IF a < b THEN a ELSE b
Max(a, b) == IF a > b THEN a ELSE b
Clamp(a, lo, hi) == Max(lo, Min(hi, a))

\* a / b rounded to the nearest integer (b > 0), symmetric around 0
RDiv(a, b) == IF a >= 0 THEN (a + b \div 2) \div b
                        ELSE -(((-a) + b \div 2) \div b)

RECURSIVE IsqrtIter(_, _, _)
IsqrtIter(n, lo, hi) ==
    IF lo >= hi THEN lo
    ELSE LET mid == (lo + hi + 1) \div 2
         IN IF mid * mid <= n THEN IsqrtIter(n, mid, hi)
                              ELSE IsqrtIter(n, lo, mid - 1)

\* floor of the square root (Math.sqrt / Vector3.length on fixed point)
Isqrt(n) == IF n <= 0 THEN 0 ELSE IsqrtIter(n, 0, Min(n, 46340))

\* ------------------------------------------------------------ THREE.Vector3
Vec(a, b, c) == [x |-> a, y |-> b, z |-> c]
VAdd(u, v) == Vec(u.x + v.x, u.y + v.y, u.z + v.z)
VSub(u, v) == Vec(u.x - v.x, u.y - v.y, u.z - v.z)
VDot(u, v) == u.x * v.x + u.y * v.y + u.z * v.z
VLenSq(u) == VDot(u, u)
VLen(u) == Isqrt(VLenSq(u))
VDistSq(u, v) == VLenSq(VSub(u, v))
\* u * (num / den)
VScale(u, num, den) == Vec(RDiv(u.x * num, den), RDiv(u.y * num, den),
                           RDiv(u.z * num, den))

\* ------------------------------------------------ ClothPhysics parameters
width == (5 * Unit * segmentsX) \div 30
height == (5 * Unit * segmentsY) \div 30
gravityForce == -9800          \* params.gravity * params.mass = -0.98
windForce == 1500              \* params.windForce = 0.15
stiffness == (85 * Scale) \div 100
shearStiffness == (stiffness * 7) \div 10
bendingStiffness == (15 * Scale) \div 100
tearThreshold == 28            \* params.tearThreshold = 2.8, in tenths
snapDistance == Unit \div 2    \* attachToPivots: minDistance < 0.5
maxDeltaTime == 20             \* update: deltaTime clamped to 0.02 s
solverPasses == 4              \* update: satisfyConstraints called 4 times

NumParticles == (segmentsX + 1) * (segmentsY + 1)

\* --------------------------------------------------------- ClothPhysics.init
gridPosition(gx, gy) ==
    Vec(gx * (width \div segmentsX) - width \div 2,
        (height \div 2) - gy * (height \div segmentsY),
        0)

newParticle(i) ==
    LET gx == i % (segmentsX + 1)
        gy == i \div (segmentsX + 1)
    IN [position |-> gridPosition(gx, gy),
        previousPosition |-> gridPosition(gx, gy),
        originalPosition |-> gridPosition(gx, gy),
        velocity |-> Vec(0, 0, 0),
        pinned |-> FALSE,
        index |-> i,
        x |-> gx,
        y |-> gy,
        active |-> TRUE,
        cutFactor |-> Scale]

createParticles == [k \in 1..NumParticles |-> newParticle(k - 1)]

\* the pivot's nearest top-row particle (1-based place in ps), 0 when none;
\* the first of several equally near ones wins (dist < minDistance)
RECURSIVE nearestTopRow(_, _, _, _, _)
nearestTopRow(ps, pivotPos, k, best, bestSq) ==
    IF k > Len(ps) THEN [place |-> best, distSq |-> bestSq]
    ELSE LET d == VDistSq(ps[k].originalPosition, pivotPos)
         IN IF ps[k].y = 0 /\ (best = 0 \/ d < bestSq)
            THEN nearestTopRow(ps, pivotPos, k + 1, k, d)
            ELSE nearestTopRow(ps, pivotPos, k + 1, best, bestSq)

\* a resolution that also adopts a particle exactly at the snap distance
pinToPivotInclusive(ps, pivotPos) ==
    LET n == nearestTopRow(ps, pivotPos, 1, 0, 0)
    IN IF n.place # 0 /\ n.distSq <= snapDistance * snapDistance
       THEN [ps EXCEPT ![n.place].pinned = TRUE,
                       ![n.place].position = pivotPos,
                       ![n.place].previousPosition = pivotPos]
       ELSE ps

pinToPivot(ps, pivotPos) ==
    LET n == nearestTopRow(ps, pivotPos, 1, 0, 0)
    IN IF n.place # 0 /\ n.distSq < snapDistance * snapDistance
       THEN [ps EXCEPT ![n.place].pinned = TRUE,
                       ![n.place].position = pivotPos,
                       ![n.place].previousPosition = pivotPos]
       ELSE ps

RECURSIVE attachEach(_, _, _)
attachEach(ps, pivots, k) ==
    IF k > Len(pivots) THEN ps
    ELSE attachEach(pinToPivot(ps, pivots[k]), pivots, k + 1)

attachToPivots(ps, pivots) ==
    attachEach([k \in 1..Len(ps) |-> [ps[k] EXCEPT !.pinned = FALSE]],
               pivots, 1)

\* addConstraint: nothing is added when an index is outside the array
addConstraint(cs, ps, index1, index2, stiff) ==
    IF index1 < 0 \/ index1 >= Len(ps) \/ index2 < 0 \/ index2 >= Len(ps)
    THEN cs
    ELSE Append(cs, [p1 |-> index1,
                     p2 |-> index2,
                     restLength |-> Isqrt(VDistSq(ps[index1 + 1].position,
                                                  ps[index2 + 1].position)),
                     stiffness |-> stiff,
                     baseStiffness |-> stiff,
                     active |-> TRUE])

constraintsAt(cs, ps, i) ==
    LET gx == i % (segmentsX + 1)
        gy == i \div (segmentsX + 1)
        row == segmentsX + 1
        c1 == IF gx < segmentsX
              THEN addConstraint(cs, ps, i, i + 1, stiffness) ELSE cs
        c2 == IF gy < segmentsY
              THEN addConstraint(c1, ps, i, i + row, stiffness) ELSE c1
        c3 == IF gx < segmentsX /\ gy < segmentsY
              THEN addConstraint(
                     addConstraint(c2, ps, i, i + row + 1, shearStiffness),
                     ps, i + 1, i + row, shearStiffness)
              ELSE c2
        c4 == IF gx < segmentsX - 1
              THEN addConstraint(c3, ps, i, i + 2, bendingStiffness) ELSE c3
        c5 == IF gy < segmentsY - 1
              THEN addConstraint(c4, ps, i, i + 2 * row, bendingStiffness)
              ELSE c4
    IN c5

RECURSIVE createFrom(_, _)
createFrom(ps, i) ==
    IF i >= NumParticles THEN <<>>
    ELSE constraintsAt(<<>>, ps, i) \o createFrom(ps, i + 1)

createConstraints(ps) == createFrom(ps, 0)

\* an init() that leaves out attachToPivots
initUnattached(pivots) ==
    [particles |-> createParticles,
     constraints |-> createConstraints(createParticles)]

\* init(): particles, then attachToPivots, then createConstraints (whose
\* rest lengths are measured on the positions attachToPivots left)
init(pivots) ==
    LET ps == attachToPivots(createParticles, pivots)
    IN [particles |-> ps, constraints |-> createConstraints(ps)]

\* ------------------------------------------------------ ClothPhysics.update
\* Math.sin / Math.cos of an angle in milliradians, result in thousandths;
\* the series is exact to the model's resolution for the angles a bounded
\* run reaches (time * windFrequency stays below 0.5 rad)
Sin(a) == a - RDiv(a * a * a, 6000000)
Cos(a) == 1000 - RDiv(a * a, 2000)

\* the force on one free particle: gravity, wind with turbulence, damping
forceOn(p, t, turbulence) ==
    LET windX == RDiv(windForce * Sin((t * 3) \div 2), 1000)
        windZ == RDiv((windForce \div 2) * Cos((t * 105) \div 100), 1000)
    IN Vec(windX + turbulence - RDiv(p.velocity.x, 5),
           gravityForce - RDiv(p.velocity.y, 5),
           windZ + RDiv(turbulence, 2) - RDiv(p.velocity.z, 5))

\* force * dt * dt / mass as a displacement
displacement(f, dt) ==
    LET k == dt * dt * (Unit \div 1000)
    IN Vec(RDiv(f.x * k, 1000000), RDiv(f.y * k, 1000000),
           RDiv(f.z * k, 1000000))

\* (position - previousPosition) / deltaTime, in thousandths per second
velocityOf(delta, dt) ==
    LET den == (Unit \div 1000) * dt
    IN Vec(RDiv(delta.x * 1000, den), RDiv(delta.y * 1000, den),
           RDiv(delta.z * 1000, den))

\* Verlet integration of one particle; pinned and cut particles are skipped
integrate(p, t, dt, turbulence) ==
    IF p.pinned \/ ~p.active THEN p
    ELSE LET f == forceOn(p, t, turbulence)
             next == VAdd(p.position,
                          VAdd(VSub(p.position, p.previousPosition),
                               displacement(f, dt)))
         IN [p EXCEPT !.position = next,
                      !.previousPosition = p.position,
                      !.velocity = velocityOf(VSub(next, p.position), dt)]

\* a tear check that forgets tearThreshold
tearsUnscaled(c, p1, p2, currentLength) ==
    currentLength * Scale > c.restLength * Min(p1.cutFactor, p2.cutFactor)

\* does the constraint tear at this length?  tearThreshold scaled by the
\* weaker endpoint's cutFactor
tears(c, p1, p2, currentLength) ==
    LET tearResistance == Min(p1.cutFactor, p2.cutFactor)
    IN currentLength * 10 * Scale > c.restLength * tearThreshold * tearResistance

\* a relaxation that shares the correction between the two endpoints
\* whether they are pinned or not
satisfyOneMovingPinned(st, j) ==
    LET c == st.cs[j]
        p1 == st.ps[c.p1 + 1]
        p2 == st.ps[c.p2 + 1]
        diff == VSub(p2.position, p1.position)
        currentLength == VLen(diff)
        k == RDiv((currentLength - c.restLength) * c.stiffness, currentLength)
        half == VScale(VScale(diff, k, Scale), 1, 2)
    IN IF ~c.active \/ ~p1.active \/ ~p2.active THEN st
       ELSE IF VLenSq(diff) = 0 \/ currentLength = 0 THEN st
       ELSE IF tears(c, p1, p2, currentLength)
            THEN [st EXCEPT !.cs[j].active = FALSE]
       ELSE [st EXCEPT !.ps[c.p1 + 1].position = VAdd(p1.position, half),
                       !.ps[c.p2 + 1].position = VSub(p2.position, half)]

\* one constraint of one relaxation pass, on st = [ps, cs]
satisfyOne(st, j) ==
    LET c == st.cs[j]
        p1 == st.ps[c.p1 + 1]
        p2 == st.ps[c.p2 + 1]
        diff == VSub(p2.position, p1.position)
        currentLength == VLen(diff)
        k == RDiv((currentLength - c.restLength) * c.stiffness, currentLength)
        correction == VScale(diff, k, Scale)
        half == VScale(correction, 1, 2)
    IN IF ~c.active \/ ~p1.active \/ ~p2.active THEN st
       ELSE IF VLenSq(diff) = 0 \/ currentLength = 0 THEN st
       ELSE IF tears(c, p1, p2, currentLength)
            THEN [st EXCEPT !.cs[j].active = FALSE]
       ELSE IF ~p1.pinned /\ ~p2.pinned
            THEN [st EXCEPT !.ps[c.p1 + 1].position = VAdd(p1.position, half),
                            !.ps[c.p2 + 1].position = VSub(p2.position, half)]
       ELSE IF ~p1.pinned
            THEN [st EXCEPT !.ps[c.p1 + 1].position =
                                VAdd(p1.position, correction)]
       ELSE IF ~p2.pinned
            THEN [st EXCEPT !.ps[c.p2 + 1].position =
                                VSub(p2.position, correction)]
       ELSE st

RECURSIVE satisfyFrom(_, _)
satisfyFrom(st, j) ==
    IF j > Len(st.cs) THEN st ELSE satisfyFrom(satisfyOne(st, j), j + 1)

satisfyConstraints(st) == satisfyFrom(st, 1)

RECURSIVE satisfyTimes(_, _)
satisfyTimes(st, n) ==
    IF n = 0 THEN st ELSE satisfyTimes(satisfyConstraints(st), n - 1)

\* if (deltaTime > 0.02) deltaTime = 0.02
clampedDeltaTime(deltaTime) ==
    IF deltaTime > maxDeltaTime THEN maxDeltaTime ELSE deltaTime

\* the particles of update(deltaTime) when its relaxation passes begin:
\* clock advanced, pins re-attached, forces applied, positions integrated
integrated(ps, pivots, t, deltaTime, turbulence) ==
    LET dt == clampedDeltaTime(deltaTime)
        pinned == attachToPivots(ps, pivots)
    IN [k \in 1..Len(pinned) |->
           integrate(pinned[k], t + dt, dt, turbulence[k])]

\* update(deltaTime): clamp, advance the clock, re-pin, integrate, relax
update(ps, cs, pivots, t, deltaTime, turbulence) ==
    LET t1 == t + clampedDeltaTime(deltaTime)
        st == satisfyTimes([ps |-> integrated(ps, pivots, t, deltaTime, turbulence),
                            cs |-> cs], solverPasses)
    IN [particles |-> st.ps, constraints |-> st.cs, time |-> t1]

\* --------------------------------------------- cut softening of constraints
\* a softening computed from the current stiffness instead of the base
softenedCompounding(c, factor) ==
    Max(RDiv(5 * c.stiffness, 10), RDiv(factor * c.stiffness, Scale))

\* stiffness of a constraint whose weaker endpoint has cutFactor factor:
\* Math.max(minFactor * baseStiffness, factor * baseStiffness), minFactor 0.5
softened(c, factor) ==
    Max(RDiv(5 * c.baseStiffness, 10), RDiv(factor * c.baseStiffness, Scale))

\* --------------------------------------------------- ClothPhysics.cutOrganic
\* squared distance to the centre in the XZ plane (depth y is ignored)
planarDistSq(p, center) ==
    (p.position.x - center.x) * (p.position.x - center.x)
    + (p.position.z - center.z) * (p.position.z - center.z)

\* Math.cos and Math.sin of (i / angleSteps) * 2 pi, angleSteps = 16, in
\* thousandths
angleSteps == 16
cos16(i) ==
    <<1000, 924, 707, 383, 0, -383, -707, -924,
      -1000, -924, -707, -383, 0, 383, 707, 924>>[(i % angleSteps) + 1]
sin16(i) == cos16(i + 12)

\* the irregular cut shape: one point per ray, at radius * variation[i + 1]
\* from the centre, variation = 0.7 + Math.random() * 0.6 in thousandths
cutShape(center, radius, variation) ==
    [n \in 1..angleSteps |->
        LET radiusVariation == RDiv(radius * variation[n], 1000)
        IN [x |-> center.x + RDiv(cos16(n - 1) * radiusVariation, 1000),
            z |-> center.z + RDiv(sin16(n - 1) * radiusVariation, 1000)]]

\* the flag "inside irregular shape" that cutOrganic computes for a
\* particle: some ray has Math.abs(cross) < 0.1 and dot > 0; the code
\* never reads it
inside(p, center, shape) ==
    LET dx == p.position.x - center.x
        dz == p.position.z - center.z
    IN \E n \in 1..angleSteps :
          LET xi == shape[n].x - center.x
              zi == shape[n].z - center.z
          IN /\ 10 * Abs(xi * dz - zi * dx) < Unit * Unit
             /\ xi * dx + zi * dz > 0

\* cutFactor of a particle in the edge area: Math.max(0.2, 1 - falloff),
\* falloff = 1 - (distance - radius) / (radius * 0.5); the old cutFactor
\* is overwritten
edgeCutFactor(old, distance, radius) ==
    LET falloff == Scale - RDiv((distance - radius) * 2 * Scale, radius)
    IN Max((2 * Scale) \div 10, Scale - falloff)

\* a displacement towards the centre instead of away from it
pushedInward(position, center, amount) ==
    LET dir == VSub(position, center)
        len == VLen(dir)
    IN IF amount = 0 \/ len = 0 THEN position
       ELSE VSub(position, VScale(dir, amount, len))

\* the random displacement of an edge particle: amount along the
\* normalised direction from the centre (amount 0: Math.random() <= 0.5)
pushed(position, center, amount) ==
    LET dir == VSub(position, center)
        len == VLen(dir)
    IN IF amount = 0 \/ len = 0 THEN position
       ELSE VAdd(position, VScale(dir, amount, len))

\* distance < radius * 1.5 and distance < radius, on the squares
inCutArea(p, center, radius) ==
    radius > 0 /\ 4 * planarDistSq(p, center) < 9 * radius * radius

inCore(p, center, radius) ==
    inCutArea(p, center, radius) /\ planarDistSq(p, center) < radius * radius

cutOrganicParticle(p, center, radius, amount) ==
    IF inCore(p, center, radius) THEN [p EXCEPT !.active = FALSE]
    ELSE IF inCutArea(p, center, radius)
         THEN [p EXCEPT !.cutFactor = edgeCutFactor(p.cutFactor,
                                         Isqrt(planarDistSq(p, center)), radius),
                        !.position = pushed(p.position, center, amount)]
    ELSE p

\* a constraint pass that softens but leaves the constraints of a cut
\* particle active
cutOrganicConstraintKeeping(c, ps) ==
    LET p1 == ps[c.p1 + 1]
        p2 == ps[c.p2 + 1]
    IN IF p1.cutFactor < Scale \/ p2.cutFactor < Scale
       THEN [c EXCEPT !.stiffness = softened(c, Min(p1.cutFactor, p2.cutFactor))]
       ELSE [c EXCEPT !.stiffness = c.baseStiffness]

cutOrganicConstraint(c, ps) ==
    LET p1 == ps[c.p1 + 1]
        p2 == ps[c.p2 + 1]
    IN IF ~p1.active \/ ~p2.active THEN [c EXCEPT !.active = FALSE]
       ELSE IF p1.cutFactor < Scale \/ p2.cutFactor < Scale
            THEN [c EXCEPT !.stiffness = softened(c, Min(p1.cutFactor, p2.cutFactor))]
       ELSE [c EXCEPT !.stiffness = c.baseStiffness]

\* a cut that splices the cut particles out of the array
cutOrganicSplicing(ps, cs, cut, center, radius, pushes) ==
    LET ps1 == [k \in 1..Len(ps) |->
                   cutOrganicParticle(ps[k], center, radius, pushes[k])]
    IN [particles |-> SelectSeq(ps1, LAMBDA q : q.active),
        constraints |-> [j \in 1..Len(cs) |-> cutOrganicConstraint(cs[j], ps1)],
        cutParticles |-> cut \cup {ps[k].index : k \in
                            {n \in 1..Len(ps) : inCore(ps[n], center, radius)}}]

\* cutOrganic(center, radius); the jittered cutShape and the inside flag
\* computed from it are never read, so the outcome depends on the random
\* displacements only
cutOrganic(ps, cs, cut, center, radius, pushes) ==
    LET ps1 == [k \in 1..Len(ps) |->
                   cutOrganicParticle(ps[k], center, radius, pushes[k])]
    IN [particles |-> ps1,
        constraints |-> [j \in 1..Len(cs) |-> cutOrganicConstraint(cs[j], ps1)],
        cutParticles |-> cut \cup {ps[k].index : k \in
                            {n \in 1..Len(ps) : inCore(ps[n], center, radius)}}]

\* ---------------------------------------------- ClothPhysics.cutAlongSegment
epsilonSq == (Unit * Unit) \div 1000000          \* 1e-6

\* clamp(num / den, 0, 1) in thousandths
clampedRatio(num, den) ==
    IF num <= 0 THEN 0
    ELSE IF num >= den THEN 1000
    ELSE IF num < 1000000 THEN RDiv(num * 1000, den)
    ELSE Min(1000, RDiv(num, Max(1, RDiv(den, 1000))))

\* the point of the segment from a along ab that is closest to q
closestPoint(a, ab, q) ==
    LET l2 == Max(epsilonSq, VLenSq(ab))
        t == clampedRatio(VDot(VSub(q, a), ab), l2)
    IN VAdd(a, VScale(ab, t, 1000))

\* squared distance from point to the cutting segment
distPointToSegSq(point, start, end) ==
    VDistSq(closestPoint(start, VSub(end, start), point), point)

\* cutFactor in the shell: Math.min(old, 1 - 0.6 * falloff)
shellCutFactor(old, d, radius, shell) ==
    LET falloff == Scale - RDiv((d - radius) * Scale, shell - radius)
    IN Min(old, Scale - RDiv(6 * falloff, 10))

\* a capsule that removes the particles of its shell as well
cutSegmentParticleWide(p, start, end, radius) ==
    LET dSq == distPointToSegSq(p.position, start, end)
        shell == RDiv(radius * 16, 10)
    IN IF ~p.active THEN p
       ELSE IF dSq <= shell * shell THEN [p EXCEPT !.active = FALSE]
       ELSE p

cutSegmentParticle(p, start, end, radius) ==
    LET dSq == distPointToSegSq(p.position, start, end)
        shell == RDiv(radius * 16, 10)
    IN IF ~p.active THEN p
       ELSE IF dSq <= radius * radius THEN [p EXCEPT !.active = FALSE]
       ELSE IF dSq <= shell * shell
            THEN [p EXCEPT !.cutFactor =
                     shellCutFactor(p.cutFactor, Isqrt(dSq), radius, shell)]
       ELSE p

cutSegmentConstraint(c, ps, start, end, radius) ==
    LET p1 == ps[c.p1 + 1]
        p2 == ps[c.p2 + 1]
        a == p1.position
        ab == VSub(p2.position, a)
        c1 == closestPoint(a, ab, start)
        c2 == closestPoint(a, ab, end)
        dSq == Min(distPointToSegSq(c1, start, end),
                   distPointToSegSq(c2, start, end))
    IN IF ~c.active THEN c
       ELSE IF dSq <= radius * radius \/ ~p1.active \/ ~p2.active
            THEN [c EXCEPT !.active = FALSE]
       ELSE [c EXCEPT !.stiffness = softened(c, Min(p1.cutFactor, p2.cutFactor))]

\* a cutAlongSegment without the early return for segLen < 1e-6
cutAlongSegmentUnguarded(ps, cs, cut, start, end, radius) ==
    LET ps1 == [k \in 1..Len(ps) |->
                   cutSegmentParticle(ps[k], start, end, radius)]
    IN [particles |-> ps1,
        constraints |-> [j \in 1..Len(cs) |->
                            cutSegmentConstraint(cs[j], ps1, start, end, radius)],
        cutParticles |-> cut \cup {ps[k].index : k \in
                            {n \in 1..Len(ps) : ps[n].active /\ ~ps1[n].active}}]

\* a cutAlongSegment that deactivates without recording the index
cutAlongSegmentUnrecorded(ps, cs, cut, start, end, radius) ==
    IF VLenSq(VSub(end, start)) = 0
    THEN [particles |-> ps, constraints |-> cs, cutParticles |-> cut]
    ELSE LET ps1 == [k \in 1..Len(ps) |->
                        cutSegmentParticle(ps[k], start, end, radius)]
         IN [particles |-> ps1,
             constraints |-> [j \in 1..Len(cs) |->
                                 cutSegmentConstraint(cs[j], ps1, start, end, radius)],
             cutParticles |-> cut]

cutAlongSegment(ps, cs, cut, start, end, radius) ==
    IF VLenSq(VSub(end, start)) = 0
    THEN [particles |-> ps, constraints |-> cs, cutParticles |-> cut]
    ELSE LET ps1 == [k \in 1..Len(ps) |->
                        cutSegmentParticle(ps[k], start, end, radius)]
         IN [particles |-> ps1,
             constraints |-> [j \in 1..Len(cs) |->
                                 cutSegmentConstraint(cs[j], ps1, start, end, radius)],
             cutParticles |-> cut \cup {ps[k].index : k \in
                                 {n \in 1..Len(ps) : ps[n].active /\ ~ps1[n].active}}]

\* -------------------------------------------------------- PivotPointManager
defaultPivots == <<Vec(-2 * Unit, 2 * Unit, 0), Vec(2 * Unit, 2 * Unit, 0),
                   Vec(0, 2 * Unit, 0)>>

removePivot(pivots, index) ==
    IF index >= 0 /\ index < Len(pivots)
    THEN [k \in 1..(Len(pivots) - 1) |->
             IF k <= index THEN pivots[k] ELSE pivots[k + 1]]
    ELSE pivots

updatePivot(pivots, index, position) ==
    IF index >= 0 /\ index < Len(pivots)
    THEN [pivots EXCEPT ![index + 1] = position]
    ELSE pivots

\* what removePivot and updatePivot hand back to the caller: neither has a
\* return statement, on either branch
removePivotReturns(pivots, index) == "undefined"
updatePivotReturns(pivots, index, position) == "undefined"

\* ---------------------------------------------------------------- ClothMesh
\* the two triangles (a, b, c), (b, d, c) of the cell at column x, row y,
\* if its four particles are active and their average cutFactor is above 0.3
facesAt(ps, x, y) ==
    LET a == y * (segmentsX + 1) + x
        b == a + 1
        c == a + (segmentsX + 1)
        d == c + 1
        avgCutFactor4 == ps[a + 1].cutFactor + ps[b + 1].cutFactor
                         + ps[c + 1].cutFactor + ps[d + 1].cutFactor
    IN IF /\ ps[a + 1].active /\ ps[b + 1].active
          /\ ps[c + 1].active /\ ps[d + 1].active
          /\ 10 * avgCutFactor4 > 4 * 3 * Scale
       THEN <<a, b, c, b, d, c>>
       ELSE <<>>

\* updateGeometry(): the index list, cell after cell from number n on
\* (row by row); the positions, uvs and colours it also writes are copies of
\* the particles' fields
RECURSIVE facesFrom(_, _)
facesFrom(ps, n) ==
    IF n >= segmentsX * segmentsY THEN <<>>
    ELSE facesAt(ps, n % segmentsX, n \div segmentsX) \o facesFrom(ps, n + 1)

updateGeometry(ps) == facesFrom(ps, 0)

\* ClothMesh.update(): [needsRebuild, indices]; positions and colours are
\* copied from the particles in every call
clothMeshUpdate(ps, rebuild, faces) ==
    [needsRebuild |-> FALSE,
     indices |-> IF rebuild THEN updateGeometry(ps) ELSE faces]

\* ====================================================== cloth.js: Cloth
\* Cloth({width = 10, height = 6, segmentsX = 30, segmentsY = 18}) has the
\* spacing 1/3 both ways; the model keeps the spacing on its smaller grid
clothNumParticles == (clothSegmentsX + 1) * (clothSegmentsY + 1)
clothDx == (10 * Unit) \div 30
clothDy == (6 * Unit) \div 18
clothWidth == clothDx * clothSegmentsX
clothOffsetY == 4 * Unit
clothGravity == -9810          \* gravity = -9.81, in thousandths
clothDampingPct == 2           \* damping = 0.02
iterations == 5
tearFactorPct == 175           \* tearFactor = 1.75
bendingStiffnessCloth == (4 * Scale) \div 10
relaxPasses == 12

_idx(gx, gy) == gy * (clothSegmentsX + 1) + gx

\* topRowIndices(): the indices of row y = 0, left to right
topRowIndices == [gx \in 1..(clothSegmentsX + 1) |-> _idx(gx - 1, 0)]
IsTopRow(i) == \E gx \in 1..(clothSegmentsX + 1) : topRowIndices[gx] = i

\* new Particle(px, py, pz, 1), pinned to its place unless in the top row
buildParticle(i) ==
    LET gx == i % (clothSegmentsX + 1)
        gy == i \div (clothSegmentsX + 1)
        at == Vec(clothDx * gx - clothWidth \div 2, clothOffsetY - gy * clothDy, 0)
    IN [position |-> at,
        previous |-> at,
        acceleration |-> Vec(0, 0, 0),
        inverseMass |-> 1,
        pinned |-> ~IsTopRow(i),
        pinPosition |-> IF IsTopRow(i) THEN Vec(0, 0, 0) ELSE at]

newConstraint(i1, i2, r, stiff) ==
    [p1 |-> i1, p2 |-> i2, restDistance |-> r, stiffness |-> stiff,
     broken |-> FALSE]

structuralAt(cs, i) ==
    LET gx == i % (clothSegmentsX + 1)
        gy == i \div (clothSegmentsX + 1)
        diag == Isqrt(clothDx * clothDx + clothDy * clothDy)
        c1 == IF gx < clothSegmentsX
              THEN Append(cs, newConstraint(_idx(gx, gy), _idx(gx + 1, gy), clothDx, Scale))
              ELSE cs
        c2 == IF gy < clothSegmentsY
              THEN Append(c1, newConstraint(_idx(gx, gy), _idx(gx, gy + 1), clothDy, Scale))
              ELSE c1
    IN IF gx < clothSegmentsX /\ gy < clothSegmentsY
       THEN Append(Append(c2,
                newConstraint(_idx(gx, gy), _idx(gx + 1, gy + 1), diag, Scale)),
                newConstraint(_idx(gx + 1, gy), _idx(gx, gy + 1), diag, Scale))
       ELSE c2

bendingAt(cs, i) ==
    LET gx == i % (clothSegmentsX + 1)
        gy == i \div (clothSegmentsX + 1)
    IN IF gy < clothSegmentsY - 1
       THEN Append(cs, newConstraint(_idx(gx, gy), _idx(gx, gy + 2),
                                     2 * clothDy, bendingStiffnessCloth))
       ELSE cs

RECURSIVE buildFrom(_, _)
buildFrom(i, bending) ==
    IF i >= clothNumParticles THEN <<>>
    ELSE (IF bending THEN bendingAt(<<>>, i) ELSE structuralAt(<<>>, i))
         \o buildFrom(i + 1, bending)

\* _buildGrid()
_buildGrid ==
    [particles |-> [k \in 1..clothNumParticles |-> buildParticle(k - 1)],
     constraints |-> buildFrom(0, FALSE) \o buildFrom(0, TRUE)]

\* Particle.integrate(deltaTime, damping), after addForce(gravity)
integrateParticle(p, deltaTime) ==
    LET acceleration == IF p.inverseMass = 0 THEN p.acceleration
                        ELSE VAdd(p.acceleration,
                                  Vec(0, clothGravity * p.inverseMass, 0))
        velocity == VSub(p.position, p.previous)
        dampedVelocity == VScale(velocity, 100 - clothDampingPct, 100)
        \* acceleration * deltaTime^2, from thousandths and ms to Unit
        travel(a) == RDiv(RDiv(a * deltaTime * deltaTime, 1000) * (Unit \div 1000), 1000)
        step == Vec(travel(acceleration.x), travel(acceleration.y),
                    travel(acceleration.z))
    IN IF p.pinned
       THEN [p EXCEPT !.position = p.pinPosition,
                      !.previous = p.pinPosition,
                      !.acceleration = Vec(0, 0, 0)]
       ELSE [p EXCEPT !.position = VAdd(VAdd(p.position, dampedVelocity), step),
                      !.previous = p.position,
                      !.acceleration = Vec(0, 0, 0)]

\* a satisfy that does not look at the broken flag
satisfyBroken(st, j) ==
    LET c == st.cs[j]
        p1 == st.ps[c.p1 + 1]
        p2 == st.ps[c.p2 + 1]
        delta == VSub(p2.position, p1.position)
        currentDist == VLen(delta)
        diff == RDiv((currentDist - c.restDistance) * c.stiffness,
                     4 * currentDist)
        inv1 == IF p1.pinned THEN 0 ELSE p1.inverseMass
        inv2 == IF p2.pinned THEN 0 ELSE p2.inverseMass
        sumInv == inv1 + inv2
    IN IF VLenSq(delta) = 0 \/ currentDist = 0 \/ sumInv = 0 THEN st
       ELSE [st EXCEPT !.ps[c.p1 + 1].position =
                           VAdd(p1.position,
                                VScale(delta, RDiv(inv1 * diff, sumInv), Scale)),
                       !.ps[c.p2 + 1].position =
                           VSub(p2.position,
                                VScale(delta, RDiv(inv2 * diff, sumInv), Scale))]

\* a satisfy that gives a pinned endpoint its share of the correction
satisfyIgnoringPins(st, j) ==
    LET c == st.cs[j]
        p1 == st.ps[c.p1 + 1]
        p2 == st.ps[c.p2 + 1]
        delta == VSub(p2.position, p1.position)
        currentDist == VLen(delta)
        diff == RDiv((currentDist - c.restDistance) * c.stiffness,
                     4 * currentDist)
        sumInv == p1.inverseMass + p2.inverseMass
    IN IF c.broken \/ VLenSq(delta) = 0 \/ currentDist = 0 \/ sumInv = 0 THEN st
       ELSE [st EXCEPT !.ps[c.p1 + 1].position =
                           VAdd(p1.position,
                                VScale(delta, RDiv(p1.inverseMass * diff, sumInv),
                                       Scale)),
                       !.ps[c.p2 + 1].position =
                           VSub(p2.position,
                                VScale(delta, RDiv(p2.inverseMass * diff, sumInv),
                                       Scale))]

\* a satisfy with the relaxation 1.25 * stiffness instead of 0.25 * stiffness
satisfyOvershooting(st, j) ==
    LET c == st.cs[j]
        p1 == st.ps[c.p1 + 1]
        p2 == st.ps[c.p2 + 1]
        delta == VSub(p2.position, p1.position)
        currentDist == VLen(delta)
        diff == RDiv((currentDist - c.restDistance) * c.stiffness * 5,
                     4 * currentDist)
        inv1 == IF p1.pinned THEN 0 ELSE p1.inverseMass
        inv2 == IF p2.pinned THEN 0 ELSE p2.inverseMass
        sumInv == inv1 + inv2
    IN IF c.broken \/ VLenSq(delta) = 0 \/ currentDist = 0 \/ sumInv = 0 THEN st
       ELSE [st EXCEPT !.ps[c.p1 + 1].position =
                           VAdd(p1.position,
                                VScale(delta, RDiv(inv1 * diff, sumInv), Scale)),
                       !.ps[c.p2 + 1].position =
                           VSub(p2.position,
                                VScale(delta, RDiv(inv2 * diff, sumInv), Scale))]

\* Constraint.satisfy() on st = [ps, cs], constraint j
satisfy(st, j) ==
    LET c == st.cs[j]
        p1 == st.ps[c.p1 + 1]
        p2 == st.ps[c.p2 + 1]
        delta == VSub(p2.position, p1.position)
        currentDist == VLen(delta)
        \* (currentDist - restDistance) / currentDist * 0.25 * stiffness
        diff == RDiv((currentDist - c.restDistance) * c.stiffness,
                     4 * currentDist)
        inv1 == IF p1.pinned THEN 0 ELSE p1.inverseMass
        inv2 == IF p2.pinned THEN 0 ELSE p2.inverseMass
        sumInv == inv1 + inv2
        move1 == RDiv(inv1 * diff, sumInv)
        move2 == RDiv(inv2 * diff, sumInv)
    IN IF c.broken THEN st
       ELSE IF VLenSq(delta) = 0 \/ currentDist = 0 THEN st
       ELSE IF sumInv = 0 THEN st
       ELSE [st EXCEPT !.ps[c.p1 + 1].position =
                           VAdd(p1.position, VScale(delta, move1, Scale)),
                       !.ps[c.p2 + 1].position =
                           VSub(p2.position, VScale(delta, move2, Scale))]

\* the tear check of step: currentDist > restDistance * tearFactor
overStretched(st, j) ==
    LET c == st.cs[j]
        currentDist == VLen(VSub(st.ps[c.p2 + 1].position,
                                 st.ps[c.p1 + 1].position))
    IN currentDist * 100 > c.restDistance * tearFactorPct

\* one constraint of one pass of step
relaxOne(st, j) ==
    IF st.cs[j].broken THEN st
    ELSE IF overStretched(st, j) THEN [st EXCEPT !.cs[j].broken = TRUE]
    ELSE satisfy(st, j)

RECURSIVE passForward(_, _)
passForward(st, j) ==
    IF j > Len(st.cs) THEN st ELSE passForward(relaxOne(st, j), j + 1)

RECURSIVE passReverse(_, _)
passReverse(st, j) ==
    IF j < 1 THEN st ELSE passReverse(relaxOne(st, j), j - 1)

RECURSIVE passes(_, _)
passes(st, i) ==
    IF i >= iterations THEN st
    ELSE passes(IF i % 2 = 1 THEN passReverse(st, Len(st.cs))
                             ELSE passForward(st, 1), i + 1)

\* the particles of step(deltaTime) when its relaxation passes begin
integrateAll(ps, deltaTime) ==
    [k \in 1..Len(ps) |-> integrateParticle(ps[k], deltaTime)]

\* a step that does not wait for startSimulation
stepUngated(ps, cs, enabled, deltaTime) ==
    passes([ps |-> integrateAll(ps, deltaTime), cs |-> cs], 0)

\* step(deltaTime)
step(ps, cs, enabled, deltaTime) ==
    IF ~enabled THEN [ps |-> ps, cs |-> cs]
    ELSE passes([ps |-> integrateAll(ps, deltaTime), cs |-> cs], 0)

\* applyPreSagOnTopRow: the columns of the pinned top-row particles
RECURSIVE pinnedColsFrom(_, _)
pinnedColsFrom(ps, col) ==
    IF col > clothSegmentsX THEN <<>>
    ELSE IF ps[topRowIndices[col + 1] + 1].pinned
         THEN <<col>> \o pinnedColsFrom(ps, col + 1)
         ELSE pinnedColsFrom(ps, col + 1)

\* one particle between the anchors at leftCol and rightCol
sagColumn(ps, leftCol, rightCol, col) ==
    LET spanCols == rightCol - leftCol
        maxSag == RDiv(spanCols * clothDx * 55, 100)
        yLeft == ps[topRowIndices[leftCol + 1] + 1].position.y
        yRight == ps[topRowIndices[rightCol + 1] + 1].position.y
        yBaseline == Min(yLeft, yRight)
        dip == RDiv(maxSag * 4 * (col - leftCol) * (rightCol - col),
                    spanCols * spanCols)
        k == topRowIndices[col + 1] + 1
        y1 == RDiv(2 * ps[k].position.y + 8 * (yBaseline - dip), 10)
    IN IF ps[k].pinned THEN ps
       ELSE [ps EXCEPT ![k].position.y = y1, ![k].previous.y = y1]

RECURSIVE sagSpan(_, _, _, _)
sagSpan(ps, leftCol, rightCol, col) ==
    IF col >= rightCol THEN ps
    ELSE sagSpan(sagColumn(ps, leftCol, rightCol, col), leftCol, rightCol, col + 1)

RECURSIVE sagPairs(_, _, _)
sagPairs(ps, cols, a) ==
    IF a >= Len(cols) THEN ps
    ELSE sagPairs(IF cols[a + 1] - cols[a] <= 1 THEN ps
                  ELSE sagSpan(ps, cols[a], cols[a + 1], cols[a] + 1),
                  cols, a + 1)

RECURSIVE sagRepeat(_, _, _)
sagRepeat(ps, cols, r) ==
    IF r = 0 THEN ps ELSE sagRepeat(sagPairs(ps, cols, 1), cols, r - 1)

applyPreSagOnTopRow(ps, repeat) ==
    LET cols == pinnedColsFrom(ps, 0)
    IN IF Len(cols) < 2 THEN ps ELSE sagRepeat(ps, cols, repeat)

\* satisfy every constraint in order, without the tear check
RECURSIVE satisfyAll(_, _)
satisfyAll(st, j) ==
    IF j > Len(st.cs) THEN st ELSE satisfyAll(satisfy(st, j), j + 1)

RECURSIVE relaxLoop(_, _, _)
relaxLoop(st, enabled, i) ==
    IF i = 0 THEN st
    ELSE LET s1 == satisfyAll(st, 1)
         IN relaxLoop(IF enabled THEN s1
                      ELSE [s1 EXCEPT !.ps = applyPreSagOnTopRow(s1.ps, 3)],
                      enabled, i - 1)

\* relaxConstraints()
relaxConstraints(ps, cs, enabled) ==
    LET st == relaxLoop([ps |-> ps, cs |-> cs], enabled, relaxPasses)
    IN IF enabled THEN st
       ELSE [st EXCEPT !.ps = applyPreSagOnTopRow(st.ps, 5)]

\* a togglePin that does not ask whether the simulation has started
togglePinAnytime(ps, cs, enabled, index) ==
    IF index < 0 \/ index >= Len(ps) \/ ~IsTopRow(index)
    THEN [ps |-> ps, cs |-> cs, returned |-> FALSE]
    ELSE LET p == ps[index + 1]
             toggled == IF p.pinned
                        THEN [ps EXCEPT ![index + 1].pinned = FALSE]
                        ELSE [ps EXCEPT ![index + 1].pinned = TRUE,
                                        ![index + 1].pinPosition = p.position]
             st == relaxConstraints(toggled, cs, enabled)
         IN [ps |-> st.ps, cs |-> st.cs, returned |-> st.ps[index + 1].pinned]

\* togglePin(index): [ps, cs, returned]
togglePin(ps, cs, enabled, index) ==
    IF index < 0 \/ index >= Len(ps) \/ ~IsTopRow(index) \/ enabled
    THEN [ps |-> ps, cs |-> cs, returned |-> FALSE]
    ELSE LET p == ps[index + 1]
             toggled == IF p.pinned
                        THEN [ps EXCEPT ![index + 1].pinned = FALSE]
                        ELSE [ps EXCEPT ![index + 1].pinned = TRUE,
                                        ![index + 1].pinPosition = p.position]
             st == relaxConstraints(toggled, cs, enabled)
         IN [ps |-> st.ps, cs |-> st.cs, returned |-> st.ps[index + 1].pinned]

RECURSIVE satisfyRounds(_, _)
satisfyRounds(st, i) ==
    IF i = 0 THEN st ELSE satisfyRounds(satisfyAll(st, 1), i - 1)

\* a startSimulation that does not look for an anchor
startSimulationUnanchored(ps, cs, enabled) ==
    LET st == satisfyRounds([ps |-> ps, cs |-> cs], relaxPasses)
    IN [ps |-> [k \in 1..Len(st.ps) |->
                   IF IsTopRow(k - 1) THEN st.ps[k]
                   ELSE [st.ps[k] EXCEPT !.pinned = FALSE]],
        cs |-> st.cs, enabled |-> TRUE, returned |-> TRUE]

\* startSimulation(): [ps, cs, enabled, returned]
startSimulation(ps, cs, enabled) ==
    IF ~\E gx \in 1..(clothSegmentsX + 1) : ps[topRowIndices[gx] + 1].pinned
    THEN [ps |-> ps, cs |-> cs, enabled |-> enabled, returned |-> FALSE]
    ELSE LET st == satisfyRounds([ps |-> ps, cs |-> cs], relaxPasses)
             sagged == applyPreSagOnTopRow(st.ps, 1)
         IN [ps |-> [k \in 1..Len(sagged) |->
                        IF IsTopRow(k - 1) THEN sagged[k]
                        ELSE [sagged[k] EXCEPT !.pinned = FALSE]],
             cs |-> st.cs, enabled |-> TRUE, returned |-> TRUE]

\* breakConstraints(predicate), the predicate given as the constraints
\* (places in the array) it holds of
breakConstraints(cs, predicate) ==
    [cs |-> [j \in 1..Len(cs) |->
                IF ~cs[j].broken /\ j \in predicate
                THEN [cs[j] EXCEPT !.broken = TRUE] ELSE cs[j]],
     count |-> Cardinality({j \in 1..Len(cs) : ~cs[j].broken /\ j \in predicate})]

\* ------------------------------------------------------------------ inputs
segmentWidth == width \div segmentsX
halfHeight == height \div 2

\* frame times handed to update, in ms (one above the 0.02 s clamp)
DeltaTimes == {16, 50}

\* (Math.random() - 0.5) * 0.02 per particle: all low, or alternating
Turbulences ==
    {[k \in 1..NumParticles |-> -100],
     [k \in 1..NumParticles |-> IF k % 2 = 0 THEN 99 ELSE -99]}

\* Math.random() * 0.1 per edge particle (0: not displaced)
maxPush == Unit \div 10
Pushes ==
    {[k \in 1..NumParticles |-> 0],
     [k \in 1..NumParticles |-> IF k % 2 = 0 THEN maxPush - 1 ELSE 0],
     [k \in 1..NumParticles |-> IF k % 3 = 0 THEN maxPush - 1 ELSE 0]}

\* cutRadius * 0.6 for cutRadius 0.1 and 0.3, and the C key's 0.5
smallRadius == (6 * Unit) \div 100
toolRadius == (18 * Unit) \div 100
holeRadius == Unit \div 2

\* hit points of the cutting ray on the cloth: two overlapping cuts beside
\* the left columns, and the C key's hole at the centre
OrganicCuts ==
    {[center |-> Vec(-(segmentWidth \div 2), 0, 0), radius |-> toolRadius],
     [center |-> Vec(-(3 * segmentWidth) \div 10, 0, 0), radius |-> toolRadius],
     [center |-> Vec(0, 0, 0), radius |-> holeRadius]}

\* drag strokes: along the top row, down between two columns, and a
\* stroke whose two ends coincide
SegmentCuts ==
    {[start |-> Vec(-segmentWidth, halfHeight, 0),
      end |-> Vec(0, halfHeight, 0), radius |-> smallRadius],
     [start |-> Vec(segmentWidth \div 2, halfHeight, 0),
      end |-> Vec(segmentWidth \div 2, -halfHeight, 0), radius |-> smallRadius],
     [start |-> Vec(0, 0, 0), end |-> Vec(0, 0, 0), radius |-> toolRadius]}

\* where a pivot is dropped or dragged to (on the plane z = 0): just
\* inside the snap distance above the top-left particle, beside the
\* bottom-right particle, and exactly the snap distance above the top row
PivotPositions ==
    {Vec(-segmentWidth, halfHeight + snapDistance - 100, 0),
     Vec(segmentWidth, 100 - halfHeight, 0),
     Vec(0, halfHeight + snapDistance, 0)}

\* the pivots a drag picks up: the first and the last
DragIndices(pivots) == {0, Len(pivots) - 1} \cap (0..(Len(pivots) - 1))

\* ----------------------------------------------------------------- actions
Command(op, a, b, r) == [op |-> op, a |-> a, b |-> b, r |-> r]
origin == Vec(0, 0, 0)

Init ==
    /\ impl \in {"ClothPhysics", "Cloth"}
    /\ clothParticles = _buildGrid.particles
    /\ clothConstraints = _buildGrid.constraints
    /\ physicsEnabled = FALSE
    /\ returned = [ok |-> TRUE, count |-> 0]
    /\ pivotPoints = defaultPivots
    /\ particles = init(defaultPivots).particles
    /\ constraints = init(defaultPivots).constraints
    /\ cutParticles = {}
    /\ time = 0
    /\ indices = updateGeometry(init(defaultPivots).particles)
    /\ needsRebuild = FALSE
    /\ cmd = Command("init", origin, origin, 0)
    /\ prevCmd = Command("none", origin, origin, 0)
    /\ steps = 0

\* animate(): clothPhysics.update(clock.getDelta()), then clothMesh.update()
Update ==
    /\ impl = "ClothPhysics"
    /\ steps < MaxSteps
    /\ \E deltaTime \in DeltaTimes, turbulence \in Turbulences :
         LET r == update(particles, constraints, pivotPoints, time,
                         deltaTime, turbulence)
             mesh == clothMeshUpdate(r.particles, needsRebuild, indices)
         IN /\ particles' = r.particles
            /\ constraints' = r.constraints
            /\ time' = r.time
            /\ needsRebuild' = mesh.needsRebuild
            /\ indices' = mesh.indices
            /\ cmd' = Command("update", origin, origin, deltaTime)
    /\ prevCmd' = cmd
    /\ steps' = steps + 1
    /\ UNCHANGED <<impl, clothVars, cutParticles, pivotPoints>>

\* CuttingTool.performCut / the C key: cutOrganic(center, radius), then
\* markForRebuild()
CutOrganic ==
    /\ impl = "ClothPhysics"
    /\ steps < MaxSteps
    /\ \E cut \in OrganicCuts, pushes \in Pushes :
         LET r == cutOrganic(particles, constraints, cutParticles,
                             cut.center, cut.radius, pushes)
         IN /\ particles' = r.particles
            /\ constraints' = r.constraints
            /\ cutParticles' = r.cutParticles
            /\ cmd' = Command("cutOrganic", cut.center, cut.center, cut.radius)
    /\ needsRebuild' = TRUE
    /\ prevCmd' = cmd
    /\ steps' = steps + 1
    /\ UNCHANGED <<impl, clothVars, pivotPoints, time, indices>>

\* CuttingTool.performCutSegment: cutAlongSegment(start, end, radius), then
\* markForRebuild()
CutAlongSegment ==
    /\ impl = "ClothPhysics"
    /\ steps < MaxSteps
    /\ \E cut \in SegmentCuts :
         LET r == cutAlongSegment(particles, constraints, cutParticles,
                                  cut.start, cut.end, cut.radius)
         IN /\ particles' = r.particles
            /\ constraints' = r.constraints
            /\ cutParticles' = r.cutParticles
            /\ cmd' = Command("cutAlongSegment", cut.start, cut.end, cut.radius)
    /\ needsRebuild' = TRUE
    /\ prevCmd' = cmd
    /\ steps' = steps + 1
    /\ UNCHANGED <<impl, clothVars, pivotPoints, time, indices>>

\* onMouseDown, Alt + click: addPivot, then attachToPivots
AddPivot ==
    /\ impl = "ClothPhysics"
    /\ steps < MaxSteps
    /\ Len(pivotPoints) < MaxPivots
    /\ \E position \in PivotPositions :
         /\ position.y > 0
         /\ pivotPoints' = Append(pivotPoints, position)
         /\ particles' = attachToPivots(particles, pivotPoints')
         /\ cmd' = Command("addPivot", position, position, 0)
    /\ prevCmd' = cmd
    /\ steps' = steps + 1
    /\ UNCHANGED <<impl, clothVars, constraints, cutParticles, time, meshVars>>

\* onMouseMove while dragging: updatePivot, then attachToPivots
MovePivot ==
    /\ impl = "ClothPhysics"
    /\ steps < MaxSteps
    /\ \E index \in DragIndices(pivotPoints), position \in PivotPositions :
         /\ pivotPoints' = updatePivot(pivotPoints, index, position)
         /\ particles' = attachToPivots(particles, pivotPoints')
         /\ cmd' = Command("movePivot", position, position, index)
    /\ prevCmd' = cmd
    /\ steps' = steps + 1
    /\ UNCHANGED <<impl, clothVars, constraints, cutParticles, time, meshVars>>

\* onMouseDown, right click on a pivot: removePivot, then init()
RemovePivot ==
    /\ impl = "ClothPhysics"
    /\ steps < MaxSteps
    /\ \E index \in 0..(Len(pivotPoints) - 1) :
         /\ pivotPoints' = removePivot(pivotPoints, index)
         /\ particles' = init(pivotPoints').particles
         /\ constraints' = init(pivotPoints').constraints
         /\ cmd' = Command("removePivot", origin, origin, index)
    /\ cutParticles' = {}
    /\ prevCmd' = cmd
    /\ steps' = steps + 1
    /\ UNCHANGED <<impl, clothVars, time, meshVars>>

\* the D key: every pivot removed, then attachToPivots
DropPivots ==
    /\ impl = "ClothPhysics"
    /\ steps < MaxSteps
    /\ pivotPoints' = <<>>
    /\ particles' = attachToPivots(particles, pivotPoints')
    /\ cmd' = Command("dropPivots", origin, origin, 0)
    /\ prevCmd' = cmd
    /\ steps' = steps + 1
    /\ UNCHANGED <<impl, clothVars, constraints, cutParticles, time, meshVars>>

\* the R key: init(), then clothMesh.updateGeometry()
ResetCloth ==
    /\ impl = "ClothPhysics"
    /\ steps < MaxSteps
    /\ particles' = init(pivotPoints).particles
    /\ constraints' = init(pivotPoints).constraints
    /\ cutParticles' = {}
    /\ indices' = updateGeometry(particles')
    /\ cmd' = Command("reset", origin, origin, 0)
    /\ prevCmd' = cmd
    /\ steps' = steps + 1
    /\ UNCHANGED <<impl, clothVars, pivotPoints, time, needsRebuild>>

\* frame times handed to Cloth.step, in ms (step does not clamp them)
ClothDeltaTimes == {16, 200}

\* indices handed to togglePin: below the array, the top row, a lower
\* row, past the array
PinIndices == {-1, clothNumParticles} \cup (0..(clothSegmentsX + 1))

\* predicates handed to breakConstraints: the constraints at one particle
\* (distance-to-cursor tests in screen space)
AtParticle(i) ==
    {j \in 1..Len(clothConstraints) :
        clothConstraints[j].p1 = i \/ clothConstraints[j].p2 = i}
BreakPredicates == {AtParticle(0), AtParticle(clothNumParticles - 1)}

\* Cloth.step(deltaTime)
Step ==
    /\ impl = "Cloth"
    /\ steps < MaxSteps
    /\ \E deltaTime \in ClothDeltaTimes :
         LET r == step(clothParticles, clothConstraints, physicsEnabled, deltaTime)
         IN /\ clothParticles' = r.ps
            /\ clothConstraints' = r.cs
            /\ cmd' = Command("step", origin, origin, deltaTime)
    /\ prevCmd' = cmd
    /\ steps' = steps + 1
    /\ UNCHANGED <<impl, physicsVars, physicsEnabled, returned>>

\* Cloth.togglePin(index)
TogglePin ==
    /\ impl = "Cloth"
    /\ steps < MaxSteps
    /\ \E index \in PinIndices :
         LET r == togglePin(clothParticles, clothConstraints, physicsEnabled, index)
         IN /\ clothParticles' = r.ps
            /\ clothConstraints' = r.cs
            /\ returned' = [ok |-> r.returned, count |-> 0]
            /\ cmd' = Command("togglePin", origin, origin, index)
    /\ prevCmd' = cmd
    /\ steps' = steps + 1
    /\ UNCHANGED <<impl, physicsVars, physicsEnabled>>

\* Cloth.startSimulation()
StartSimulation ==
    /\ impl = "Cloth"
    /\ steps < MaxSteps
    /\ LET r == startSimulation(clothParticles, clothConstraints, physicsEnabled)
       IN /\ clothParticles' = r.ps
          /\ clothConstraints' = r.cs
          /\ physicsEnabled' = r.enabled
          /\ returned' = [ok |-> r.returned, count |-> 0]
    /\ cmd' = Command("startSimulation", origin, origin, 0)
    /\ prevCmd' = cmd
    /\ steps' = steps + 1
    /\ UNCHANGED <<impl, physicsVars>>

\* Cloth.breakConstraints(predicate)
BreakConstraints ==
    /\ impl = "Cloth"
    /\ steps < MaxSteps
    /\ \E predicate \in BreakPredicates :
         LET r == breakConstraints(clothConstraints, predicate)
         IN /\ clothConstraints' = r.cs
            /\ returned' = [ok |-> TRUE, count |-> r.count]
    /\ cmd' = Command("breakConstraints", origin, origin, 0)
    /\ prevCmd' = cmd
    /\ steps' = steps + 1
    /\ UNCHANGED <<impl, physicsVars, clothParticles, physicsEnabled>>

Next ==
    \/ Step
    \/ TogglePin
    \/ StartSimulation
    \/ BreakConstraints
    \/ Update
    \/ CutOrganic
    \/ CutAlongSegment
    \/ AddPivot
    \/ MovePivot
    \/ RemovePivot
    \/ DropPivots
    \/ ResetCloth

Spec == Init /\ [][Next]_vars

\* ================================================================== claims
\* the constraint array as createConstraints builds it on the bare grid
GridConstraints == createConstraints(createParticles)
ParticleIds == 1..Len(particles)
ConstraintIds == 1..Len(constraints)
IsPhysics == impl = "ClothPhysics"
IsCloth == impl = "Cloth"
ClothParticleIds == 1..Len(clothParticles)
ClothConstraintIds == 1..Len(clothConstraints)
LastWasCut == cmd.op \in {"cutOrganic", "cutAlongSegment"}
PivotCommands == {"addPivot", "movePivot", "removePivot", "dropPivots"}
EndpointsActive(c) == particles[c.p1 + 1].active /\ particles[c.p2 + 1].active
WeakerFactor(c) ==
    Min(particles[c.p1 + 1].cutFactor, particles[c.p2 + 1].cutFactor)

\* C1: without a reset command, a particle that is inactive stays inactive
\* and a constraint that is inactive (main.js active = false, cloth.js
\* broken = true) stays inactive, whatever command (tick, cut,
\* breakConstraints, pivot add / move / remove) comes next.
C1_DeactivationOneWay ==
    [][/\ (IsPhysics /\ cmd'.op # "reset") =>
             /\ \A k \in ParticleIds :
                   ~particles[k].active => ~particles'[k].active
             /\ \A j \in ConstraintIds :
                   ~constraints[j].active => ~constraints'[j].active
       /\ IsCloth =>
             \A j \in ClothConstraintIds :
                clothConstraints[j].broken => clothConstraints'[j].broken]_vars

\* C2: a point cut or a segment cut never raises any particle's cutFactor.
C2_DamageMonotonic ==
    [][(IsPhysics /\ cmd'.op \in {"cutOrganic", "cutAlongSegment"}) =>
          \A k \in ParticleIds :
             particles'[k].cutFactor <= particles[k].cutFactor]_vars

\* a cut as a value: a point cut with its random displacements, or a stroke
AllCuts ==
    {[kind |-> "organic", a |-> c.center, b |-> c.center, r |-> c.radius,
      pushes |-> ps] : c \in OrganicCuts, ps \in Pushes}
    \cup {[kind |-> "segment", a |-> c.start, b |-> c.end, r |-> c.radius,
           pushes |-> [k \in 1..NumParticles |-> 0]] : c \in SegmentCuts}

ApplyCut(st, cut) ==
    IF cut.kind = "organic"
    THEN cutOrganic(st.particles, st.constraints, st.cutParticles,
                    cut.a, cut.r, cut.pushes)
    ELSE cutAlongSegment(st.particles, st.constraints, st.cutParticles,
                         cut.a, cut.b, cut.r)

Current ==
    [particles |-> particles, constraints |-> constraints,
     cutParticles |-> cutParticles]

\* C3: from any state, two cuts A and B leave every constraint that is
\* still active with the same stiffness whichever of the two is applied
\* first.
C3_StiffnessOrderIndependent ==
    IsPhysics =>
       \A A \in AllCuts, B \in AllCuts :
          LET ab == ApplyCut(ApplyCut(Current, A), B)
              ba == ApplyCut(ApplyCut(Current, B), A)
          IN \A j \in ConstraintIds :
                (ab.constraints[j].active /\ ba.constraints[j].active)
                   => ab.constraints[j].stiffness = ba.constraints[j].stiffness

\* C4: every active constraint with two active endpoints has stiffness
\* max(0.5 * base, min(cutFactor1, cutFactor2) * base), which lies in
\* [0.5 * base, base], and its baseStiffness is the one it was created with.
C4_StiffnessFromBase ==
    IsPhysics =>
       \A j \in ConstraintIds :
          LET c == constraints[j]
              half == (5 * c.baseStiffness + 5) \div 10
              scaled == (WeakerFactor(c) * c.baseStiffness + Scale \div 2) \div Scale
          IN /\ c.baseStiffness = GridConstraints[j].baseStiffness
             /\ (c.active /\ EndpointsActive(c)) =>
                   /\ c.stiffness = (IF half > scaled THEN half ELSE scaled)
                   /\ c.stiffness >= half
                   /\ c.stiffness <= c.baseStiffness

\* an active constraint between active particles softened below its base
\* while another one sits on the 0.5 floor, after a cut
C4_Witness ==
    /\ IsPhysics /\ LastWasCut /\ prevCmd.op \in {"cutOrganic", "cutAlongSegment"}
    /\ \E j \in ConstraintIds :
          /\ constraints[j].active /\ EndpointsActive(constraints[j])
          /\ constraints[j].stiffness < constraints[j].baseStiffness
          /\ 2 * constraints[j].stiffness > constraints[j].baseStiffness + 1

\* C5: no active constraint has an inactive endpoint.
C5_NoActiveConstraintOnCutParticle ==
    IsPhysics =>
       \A j \in ConstraintIds :
          constraints[j].active => EndpointsActive(constraints[j])

\* a cut has just deactivated some particle and left others active
C5_Witness ==
    /\ IsPhysics /\ LastWasCut
    /\ \E k \in ParticleIds : ~particles[k].active
    /\ \E j \in ConstraintIds : constraints[j].active

\* C6: cutOrganic called a second time with the same centre and radius
\* changes no particle's and no constraint's active flag.
C6_PointCutIdempotent ==
    [][(IsPhysics /\ cmd.op = "cutOrganic" /\ cmd' = cmd) =>
          /\ \A k \in ParticleIds : particles'[k].active = particles[k].active
          /\ \A j \in ConstraintIds :
                constraints'[j].active = constraints[j].active]_vars

\* the same point cut twice in a row, with a core particle cut and an edge
\* particle displaced from its grid place
C6_Witness ==
    /\ IsPhysics /\ cmd.op = "cutOrganic" /\ prevCmd = cmd
    /\ \E k \in ParticleIds : ~particles[k].active
    /\ \E k \in ParticleIds :
          /\ particles[k].active /\ particles[k].cutFactor < Scale
          /\ particles[k].position # particles[k].originalPosition

\* C7: the particle array always holds (segmentsX+1)*(segmentsY+1)
\* particles with index = array place, and the constraint array keeps its
\* length and its endpoint pairs, each naming two existing particles, in
\* ClothPhysics and in Cloth alike.
C7_StorageFixed ==
    /\ IsCloth =>
       /\ Len(clothParticles) = (clothSegmentsX + 1) * (clothSegmentsY + 1)
       /\ Len(clothConstraints) = Len(_buildGrid.constraints)
       /\ \A j \in ClothConstraintIds :
             /\ clothConstraints[j].p1 = _buildGrid.constraints[j].p1
             /\ clothConstraints[j].p2 = _buildGrid.constraints[j].p2
             /\ clothConstraints[j].p1 \in 0..(Len(clothParticles) - 1)
             /\ clothConstraints[j].p2 \in 0..(Len(clothParticles) - 1)
    /\ IsPhysics =>
       /\ Len(particles) = (segmentsX + 1) * (segmentsY + 1)
       /\ \A k \in ParticleIds :
             /\ particles[k].index = k - 1
             /\ particles[k].index = particles[k].y * (segmentsX + 1) + particles[k].x
       /\ Len(constraints) = Len(GridConstraints)
       /\ \A j \in ConstraintIds :
             /\ constraints[j].p1 = GridConstraints[j].p1
             /\ constraints[j].p2 = GridConstraints[j].p2
             /\ constraints[j].p1 \in 0..(Len(particles) - 1)
             /\ constraints[j].p2 \in 0..(Len(particles) - 1)

\* cuts and a tick have happened: a particle is cut, a constraint is torn
\* or cut, a particle has moved
C7_Witness ==
    /\ IsPhysics
    /\ \E k \in ParticleIds : ~particles[k].active
    /\ \E j \in ConstraintIds : ~constraints[j].active
    /\ \E k \in ParticleIds : particles[k].position # particles[k].originalPosition
    /\ cmd.op = "update"

\* pivot i adopts the particle at place k: k is in the top row, within the
\* snap distance, and the first of the top-row particles nearest to i
DistToPivotSq(k, i) == VDistSq(particles[k].originalPosition, pivotPoints[i])
Adopts(i, k) ==
    /\ particles[k].y = 0
    /\ DistToPivotSq(k, i) < snapDistance * snapDistance
    /\ \A m \in ParticleIds :
          particles[m].y = 0 =>
             IF m < k THEN DistToPivotSq(m, i) > DistToPivotSq(k, i)
                      ELSE DistToPivotSq(m, i) >= DistToPivotSq(k, i)

\* C8: at the end of every tick each pinned particle is at its pin
\* position (Cloth) or at the position of the last pivot that adopts it
\* (ClothPhysics), and so is its previous position.
C8_PinnedStayPut ==
    /\ (IsCloth /\ cmd.op = "step" /\ physicsEnabled) =>
          \A k \in ClothParticleIds :
             clothParticles[k].pinned =>
                /\ clothParticles[k].position = clothParticles[k].pinPosition
                /\ clothParticles[k].previous = clothParticles[k].pinPosition
    /\ (IsPhysics /\ cmd.op = "update") =>
       \A k \in ParticleIds :
          particles[k].pinned =>
             \E i \in 1..Len(pivotPoints) :
                /\ Adopts(i, k)
                /\ \A i2 \in (i + 1)..Len(pivotPoints) : ~Adopts(i2, k)
                /\ particles[k].position = pivotPoints[i]
                /\ particles[k].previousPosition = pivotPoints[i]

\* a tick has run with a pinned particle held away from its grid place
\* while a free neighbour of it was moved
C8_Witness ==
    /\ IsPhysics /\ cmd.op = "update"
    /\ \E j \in ConstraintIds :
          LET p1 == particles[constraints[j].p1 + 1]
              p2 == particles[constraints[j].p2 + 1]
          IN /\ p1.pinned /\ ~p2.pinned /\ p2.active
             /\ p1.position # p1.originalPosition
             /\ p2.position.x # p2.originalPosition.x

\* C9: a pinned particle is in the top row, is a nearest top-row particle
\* of some pivot and is closer to it than the snap distance; the pinned
\* particles are no more than the pivots.
C9_OnlyEligiblePinned ==
    IsPhysics =>
       /\ \A k \in ParticleIds :
             particles[k].pinned =>
                /\ particles[k].y = 0
                /\ \E i \in 1..Len(pivotPoints) :
                      /\ DistToPivotSq(k, i) < snapDistance * snapDistance
                      /\ \A m \in ParticleIds :
                            particles[m].y = 0 =>
                               DistToPivotSq(k, i) <= DistToPivotSq(m, i)
       /\ Cardinality({k \in ParticleIds : particles[k].pinned})
             <= Len(pivotPoints)

\* one pivot holds a particle, another sits exactly at the snap distance
\* and holds nothing, and a third is nearer to a lower row than to the top
C9_Witness ==
    /\ IsPhysics
    /\ \E k \in ParticleIds : particles[k].pinned
    /\ \E i \in 1..Len(pivotPoints) :
          \E k \in ParticleIds :
             /\ particles[k].y = 0 /\ ~particles[k].pinned
             /\ DistToPivotSq(k, i) = snapDistance * snapDistance
    /\ \E i \in 1..Len(pivotPoints) :
          \E k, m \in ParticleIds :
             /\ particles[k].y = 0 /\ particles[k].pinned
             /\ particles[m].y # 0
             /\ DistToPivotSq(m, i) < DistToPivotSq(k, i)
             /\ Adopts(i, k)

\* C10: an anchor command (add, move, remove, drop) re-resolves the pins
\* from scratch and changes no active flag, no cutFactor and no constraint
\* flag; with no anchors nothing is pinned.
C10_PinningReversible ==
    [][(IsPhysics /\ cmd'.op \in PivotCommands) =>
          /\ \A k \in ParticleIds :
                /\ particles'[k].active = particles[k].active
                /\ particles'[k].cutFactor = particles[k].cutFactor
                /\ particles'[k].pinned =
                      (\E i \in 1..Len(pivotPoints') :
                          /\ particles[k].y = 0
                          /\ VDistSq(particles[k].originalPosition, pivotPoints'[i])
                                < snapDistance * snapDistance
                          /\ \A m \in ParticleIds :
                                particles[m].y = 0 =>
                                   IF m < k
                                   THEN VDistSq(particles[m].originalPosition, pivotPoints'[i])
                                           > VDistSq(particles[k].originalPosition, pivotPoints'[i])
                                   ELSE VDistSq(particles[m].originalPosition, pivotPoints'[i])
                                           >= VDistSq(particles[k].originalPosition, pivotPoints'[i]))
          /\ \A j \in ConstraintIds :
                constraints'[j].active = constraints[j].active]_vars

\* the constraints with every inactive one given another rest length: what
\* an operation computes must not depend on it
WithInactiveStretched(cs) ==
    [j \in 1..Len(cs) |->
        IF cs[j].active THEN cs[j]
        ELSE [cs[j] EXCEPT !.restLength = 2 * cs[j].restLength + 1]]

\* a tick without turbulence: Math.random() = 0.5 for every particle
Calm == [k \in 1..NumParticles |-> 0]

WithBrokenStretched(cs) ==
    [j \in 1..Len(cs) |->
        IF cs[j].broken
        THEN [cs[j] EXCEPT !.restDistance = 2 * cs[j].restDistance + 1]
        ELSE cs[j]]

BrokenStay(before, after) ==
    \A j \in 1..Len(before) : before[j].broken => after[j].broken

LengthOf(st, j) ==
    Isqrt(VDistSq(st.ps[st.cs[j].p1 + 1].position,
                  st.ps[st.cs[j].p2 + 1].position))

\* constraint j of ClothPhysics is longer than restLength * tearThreshold,
\* the threshold scaled by the weaker cutFactor of the endpoints when
\* scaled is TRUE
Overstretched(st, j, scaled) ==
    LET c == st.cs[j]
        factor == IF scaled
                  THEN Min(st.ps[c.p1 + 1].cutFactor, st.ps[c.p2 + 1].cutFactor)
                  ELSE Scale
    IN LengthOf(st, j) * 10 * Scale > c.restLength * tearThreshold * factor

\* the visits of one pass of satisfyConstraints, from constraint j on: every
\* visit that deactivates finds the constraint overstretched
RECURSIVE PassTearsOnlyOverstretched(_, _, _)
PassTearsOnlyOverstretched(st, j, scaled) ==
    IF j > Len(st.cs) THEN TRUE
    ELSE /\ (st.cs[j].active /\ ~satisfyOne(st, j).cs[j].active)
               => Overstretched(st, j, scaled)
         /\ PassTearsOnlyOverstretched(satisfyOne(st, j), j + 1, scaled)

\* the same for the last n relaxation passes of update
RECURSIVE TickTearsOnlyOverstretched(_, _, _)
TickTearsOnlyOverstretched(st, n, scaled) ==
    IF n = 0 THEN TRUE
    ELSE /\ PassTearsOnlyOverstretched(st, 1, scaled)
         /\ TickTearsOnlyOverstretched(satisfyConstraints(st), n - 1, scaled)

\* the place in the array of visit number v of pass i of Cloth.step: odd
\* passes run from the last constraint to the first
Visited(st, v, i) == IF i % 2 = 1 THEN Len(st.cs) + 1 - v ELSE v

\* the visits of pass i of Cloth.step, from visit number v on, with
\* restDistance * tearFactor
RECURSIVE StepPassTearsOnlyOverstretched(_, _, _)
StepPassTearsOnlyOverstretched(st, v, i) ==
    IF v > Len(st.cs) THEN TRUE
    ELSE /\ (~st.cs[Visited(st, v, i)].broken
             /\ relaxOne(st, Visited(st, v, i)).cs[Visited(st, v, i)].broken)
               => LengthOf(st, Visited(st, v, i)) * 100
                     > st.cs[Visited(st, v, i)].restDistance * tearFactorPct
         /\ StepPassTearsOnlyOverstretched(relaxOne(st, Visited(st, v, i)), v + 1, i)

\* the same for the passes i, i + 1, ... of Cloth.step
RECURSIVE StepTearsOnlyOverstretched(_, _)
StepTearsOnlyOverstretched(st, i) ==
    IF i >= iterations THEN TRUE
    ELSE /\ StepPassTearsOnlyOverstretched(st, 1, i)
         /\ StepTearsOnlyOverstretched(
               IF i % 2 = 1 THEN passReverse(st, Len(st.cs))
                            ELSE passForward(st, 1), i + 1)

TicksTearOnlyOverstretched(scaled) ==
    /\ IsPhysics =>
          \A deltaTime \in DeltaTimes :
             TickTearsOnlyOverstretched(
                [ps |-> integrated(particles, pivotPoints, time, deltaTime, Calm),
                 cs |-> constraints], solverPasses, scaled)
    /\ (IsCloth /\ physicsEnabled) =>
          \A deltaTime \in ClothDeltaTimes :
             StepTearsOnlyOverstretched(
                [ps |-> integrateAll(clothParticles, deltaTime),
                 cs |-> clothConstraints], 0)

\* C12 as stated: a tick deactivates a constraint only when it finds it
\* longer than restLength * tearThreshold (2.8, Cloth: restDistance * 1.75),
\* whatever the cutFactor of its endpoints.
C12_TearOnlyAboveThreshold == TicksTearOnlyOverstretched(FALSE)

\* C12 amended: a tick deactivates a constraint only when it finds it
\* longer than restLength * tearThreshold * min(cutFactor of its endpoints)
\* (Cloth: restDistance * tearFactor).
C12_TearOnlyAboveScaledThreshold == TicksTearOnlyOverstretched(TRUE)

\* a tick from here tears a constraint between two weakened, active
\* particles that is not longer than 2.8 rest lengths after that tick
C12_Witness ==
    /\ IsPhysics
    /\ \E deltaTime \in DeltaTimes :
          LET ticked == update(particles, constraints, pivotPoints, time,
                               deltaTime, Calm)
          IN \E j \in ConstraintIds :
                /\ constraints[j].active /\ ~ticked.constraints[j].active
                /\ EndpointsActive(constraints[j])
                /\ WeakerFactor(constraints[j]) < Scale
                /\ ~Overstretched([ps |-> ticked.particles,
                                   cs |-> ticked.constraints], j, FALSE)

\* satisfy, called on constraint j of st, corrects a constraint that the
\* tear check of step would break
CorrectsOverstretched(st, j) ==
    /\ satisfy(st, j) # st
    /\ overStretched(st, j)

\* no call of satisfyAll from constraint j on corrects such a constraint
RECURSIVE SatisfyAllChecksTear(_, _)
SatisfyAllChecksTear(st, j) ==
    IF j > Len(st.cs) THEN TRUE
    ELSE /\ ~CorrectsOverstretched(st, j)
         /\ SatisfyAllChecksTear(satisfy(st, j), j + 1)

\* the same for the last i iterations of relaxConstraints
RECURSIVE RelaxLoopChecksTear(_, _, _)
RelaxLoopChecksTear(st, enabled, i) ==
    IF i = 0 THEN TRUE
    ELSE /\ SatisfyAllChecksTear(st, 1)
         /\ RelaxLoopChecksTear(relaxLoop(st, enabled, 1), enabled, i - 1)

\* the same for the last i rounds of startSimulation
RECURSIVE SatisfyRoundsCheckTear(_, _)
SatisfyRoundsCheckTear(st, i) ==
    IF i = 0 THEN TRUE
    ELSE /\ SatisfyAllChecksTear(st, 1)
         /\ SatisfyRoundsCheckTear(satisfyAll(st, 1), i - 1)

\* the cloth when togglePin(index) calls relaxConstraints
Toggled(index) ==
    IF clothParticles[index + 1].pinned
    THEN [clothParticles EXCEPT ![index + 1].pinned = FALSE]
    ELSE [clothParticles EXCEPT
             ![index + 1].pinned = TRUE,
             ![index + 1].pinPosition = clothParticles[index + 1].position]

\* C13: the tear check precedes every satisfy call: neither togglePin (through
\* relaxConstraints) nor startSimulation, called in the current state,
\* corrects the length of a constraint whose endpoints are further apart than
\* restDistance * tearFactor.
C13_TearCheckPrecedesSatisfy ==
    (IsCloth /\ ~physicsEnabled) =>
       /\ \A index \in 0..clothSegmentsX :
             RelaxLoopChecksTear([ps |-> Toggled(index), cs |-> clothConstraints],
                                 physicsEnabled, relaxPasses)
       /\ (\E gx \in 1..(clothSegmentsX + 1) :
              clothParticles[topRowIndices[gx] + 1].pinned)
             => SatisfyRoundsCheckTear([ps |-> clothParticles,
                                        cs |-> clothConstraints], relaxPasses)

\* some top-row particle of the cloth is pinned
Anchored == \E k \in ClothParticleIds : IsTopRow(k - 1) /\ clothParticles[k].pinned

\* C14: startSimulation() without a pinned top-row particle returns false and
\* leaves positions, pin flags, constraint flags and physicsEnabled as they
\* were; with one it returns true and physicsEnabled is true.
C14_StartNeedsAnchor ==
    [][cmd'.op = "startSimulation" =>
          IF Anchored
          THEN returned'.ok /\ physicsEnabled'
          ELSE /\ ~returned'.ok
               /\ UNCHANGED <<clothParticles, clothConstraints, physicsEnabled>>]_vars

\* startSimulation() has just refused a cloth without anchors
C14_Witness ==
    /\ IsCloth
    /\ cmd.op = "startSimulation"
    /\ ~Anchored
    /\ ~returned.ok
    /\ ~physicsEnabled

\* indices outside the pivot array
InvalidPivotIndices == {-1, Len(pivotPoints), Len(pivotPoints) + 1}

\* C15: togglePin with an index outside the particle array returns false and
\* changes nothing; removePivot and updatePivot with an index outside the
\* pivot array change no pivot and hand the caller a result that tells the
\* failure from a successful call.
C15_InvalidIndexReported ==
    /\ IsCloth =>
          \A index \in {-1, clothNumParticles, clothNumParticles + 1} :
             LET r == togglePin(clothParticles, clothConstraints,
                                physicsEnabled, index)
             IN /\ r.returned = FALSE
                /\ r.ps = clothParticles
                /\ r.cs = clothConstraints
    /\ IsPhysics =>
          \A index \in InvalidPivotIndices :
             /\ removePivot(pivotPoints, index) = pivotPoints
             /\ removePivotReturns(pivotPoints, index)
                   # removePivotReturns(defaultPivots, 0)
             /\ \A position \in PivotPositions :
                   /\ updatePivot(pivotPoints, index, position) = pivotPoints
                   /\ updatePivotReturns(pivotPoints, index, position)
                         # updatePivotReturns(defaultPivots, 0, position)

\* C16: the time step is clamped before integration: the time step a tick
\* integrates with is positive and at most 0.02 s, whatever deltaTime it is
\* given: ClothPhysics.update advances its clock by such a step, and
\* Cloth.step leaves the particles that a step of min(deltaTime, 0.02 s)
\* leaves.
C16_TimeStepClamped ==
    [][/\ cmd'.op = "update" => (time' - time) \in 1..maxDeltaTime
       /\ (cmd'.op = "step" /\ physicsEnabled) =>
             clothParticles' = step(clothParticles, clothConstraints,
                                    physicsEnabled,
                                    Min(cmd'.r, maxDeltaTime)).ps]_vars

\* C17: cutAlongSegment(start, end, radius) with start = end changes no
\* particle (active, cutFactor, position), no constraint (active, stiffness)
\* and not the cutParticles set.
C17_DegenerateSegmentNoOp ==
    [][(cmd'.op = "cutAlongSegment" /\ cmd'.a = cmd'.b) =>
          UNCHANGED <<particles, constraints, cutParticles>>]_vars

\* a stroke whose ends coincide has just been given to a cloth that an
\* earlier cut has damaged and that has particles within its radius
C17_Witness ==
    /\ IsPhysics
    /\ cmd.op = "cutAlongSegment" /\ cmd.a = cmd.b
    /\ cutParticles # {}
    /\ \E k \in ParticleIds :
          /\ particles[k].active
          /\ VDistSq(particles[k].position, cmd.a) <= cmd.r * cmd.r

\* the per-ray factors 0.7 + Math.random() * 0.6 of one call: the smallest,
\* the middle and the largest
RayVariations == {[n \in 1..angleSteps |-> f] : f \in {700, 1000, 1299}}

\* cross product in the XZ plane
CrossXZ(ax, az, bx, bz) == ax * bz - az * bx

\* the planar position of p lies inside the polygon of the points of shape,
\* which is star-shaped around center: in the triangle of the centre and two
\* neighbouring points, off the outer edge
InsidePolygon(p, center, shape) ==
    LET dx == p.position.x - center.x
        dz == p.position.z - center.z
    IN \E n \in 1..angleSteps :
          LET xi == shape[n].x - center.x
              zi == shape[n].z - center.z
              xj == shape[(n % angleSteps) + 1].x - center.x
              zj == shape[(n % angleSteps) + 1].z - center.z
          IN /\ CrossXZ(xi, zi, dx, dz) >= 0
             /\ CrossXZ(dx, dz, xj, zj) >= 0
             /\ CrossXZ(xj - xi, zj - zi, dx - xi, dz - zi) > 0

\* C18: after cutOrganic(center, radius) every particle inside the jittered
\* polygon of the call, or nearer to the centre than radius, is inactive;
\* an active particle outside both and nearer than 1.5 * radius stays
\* active and its cutFactor does not grow.
C18_CutRegion ==
    IsPhysics =>
       \A c \in OrganicCuts, variation \in RayVariations, pushes \in Pushes :
          LET shape == cutShape(c.center, c.radius, variation)
              after == cutOrganic(particles, constraints, cutParticles,
                                  c.center, c.radius, pushes).particles
          IN \A k \in ParticleIds :
                LET p == particles[k]
                    hit == \/ InsidePolygon(p, c.center, shape)
                           \/ planarDistSq(p, c.center) < c.radius * c.radius
                IN /\ hit => ~after[k].active
                   /\ (~hit /\ p.active /\ inCutArea(p, c.center, c.radius))
                         => /\ after[k].active
                            /\ after[k].cutFactor <= p.cutFactor

\* the cells of the grid, numbered row by row, and the corners of one
Cells == 0..(segmentsX * segmentsY - 1)
Corners(n) ==
    LET a == (n \div segmentsX) * (segmentsX + 1) + (n % segmentsX)
    IN {a, a + 1, a + segmentsX + 1, a + segmentsX + 2}

\* the face list faces holds a triangle of cell n
HasFace(faces, n) ==
    \E t \in 1..(Len(faces) \div 3) :
       {faces[3 * t - 2], faces[3 * t - 1], faces[3 * t]} \subseteq Corners(n)

\* C19: a command that changes the active flag or the cutFactor of a
\* particle raises needsRebuild or leaves the rebuilt face list, and after
\* ClothMesh.update the face list has the triangles of a cell only if its
\* four corner particles are active.
C19_RebuildSignalled ==
    [][/\ (\E k \in ParticleIds :
              \/ particles'[k].active # particles[k].active
              \/ particles'[k].cutFactor # particles[k].cutFactor)
          => (needsRebuild' \/ indices' = updateGeometry(particles'))
       /\ cmd'.op = "update" =>
             \A n \in Cells :
                HasFace(indices', n) =>
                   \A i \in Corners(n) : particles'[i + 1].active]_vars

\* the commands that call init() on a running cloth
InitCommands == {"reset", "removePivot"}

\* everything C20 says of the cloth but the positions
PristineFlags ==
    /\ \A k \in ParticleIds :
          /\ particles[k].active
          /\ particles[k].cutFactor = Scale
          /\ particles[k].pinned = (\E i \in 1..Len(pivotPoints) : Adopts(i, k))
    /\ \A j \in ConstraintIds :
          /\ constraints[j].active
          /\ constraints[j].stiffness = constraints[j].baseStiffness
    /\ cutParticles = {}

\* the place of the particle at place k on the bare grid
GridPlace(k) == gridPosition(particles[k].x, particles[k].y)

\* C20 as stated: after init() every particle is active with cutFactor 1 at
\* its original grid position, every constraint is active with stiffness =
\* baseStiffness, cutParticles is empty and the pinned particles are those
\* the anchors adopt.
C20_ResetRestoresGrid ==
    (IsPhysics /\ cmd.op \in InitCommands) =>
       /\ PristineFlags
       /\ \A k \in ParticleIds : particles[k].position = GridPlace(k)

\* C20 amended: as above, but only the particles that are not pinned are at
\* their grid position; a pinned particle is at the position of the last
\* anchor that adopts it.
C20_ResetRestoresPinnedGrid ==
    (IsPhysics /\ cmd.op \in InitCommands) =>
       /\ PristineFlags
       /\ \A k \in ParticleIds :
             IF particles[k].pinned
             THEN \E i \in 1..Len(pivotPoints) :
                     /\ Adopts(i, k)
                     /\ \A i2 \in (i + 1)..Len(pivotPoints) : ~Adopts(i2, k)
                     /\ particles[k].position = pivotPoints[i]
             ELSE particles[k].position = GridPlace(k)

\* the R key has just reset a cloth that was cut the step before, with an
\* anchor holding a particle away from its grid position
C20_Witness ==
    /\ IsPhysics
    /\ cmd.op = "reset"
    /\ prevCmd.op \in {"cutOrganic", "cutAlongSegment"}
    /\ \E k \in ParticleIds :
          particles[k].pinned /\ particles[k].position # GridPlace(k)

\* the rest length of constraint j of st, whichever implementation built it
RestOf(st, j) ==
    IF IsCloth THEN st.cs[j].restDistance ELSE st.cs[j].restLength

\* one call of satisfy (Cloth) or one visit of the relaxation pass
\* (ClothPhysics) on constraint j of st
Relaxed(st, j) == IF IsCloth THEN satisfy(st, j) ELSE satisfyOne(st, j)

\* constraint j of st is one the claim speaks of: not broken, its endpoints
\* active and not both pinned, its stiffness at most 1, and not torn by the
\* visit
Relaxable(st, j) ==
    LET c == st.cs[j]
        p1 == st.ps[c.p1 + 1]
        p2 == st.ps[c.p2 + 1]
    IN /\ c.stiffness <= Scale
       /\ ~(p1.pinned /\ p2.pinned)
       /\ IF IsCloth THEN ~c.broken
          ELSE /\ c.active /\ p1.active /\ p2.active
               /\ Relaxed(st, j).cs[j].active

\* what the rounding of the fixed-point positions and of the length can add
\* to a length: 0.0005 world units
Resolution == Unit \div 2000

\* from length before to length after, the constraint has stayed on its side
\* of rest and has come no farther from it (up to the resolution)
TrendsToRest(before, after, rest) ==
    IF before >= rest
    THEN after >= rest - Resolution /\ after <= before + Resolution
    ELSE after <= rest + Resolution /\ after >= before - Resolution

\* n more calls on constraint j of st all trend to the rest length
RECURSIVE RepeatedTrendsToRest(_, _, _)
RepeatedTrendsToRest(st, j, n) ==
    IF n = 0 \/ ~Relaxable(st, j) THEN TRUE
    ELSE /\ TrendsToRest(LengthOf(st, j), LengthOf(Relaxed(st, j), j),
                         RestOf(st, j))
         /\ RepeatedTrendsToRest(Relaxed(st, j), j, n - 1)

\* how many calls in a row the claim is checked for
Repeats == 3

\* C21: satisfy() on a non-broken constraint with an unpinned endpoint and
\* stiffness at most 1 leaves the endpoint distance on the same side of the
\* rest length and no farther from it, call after call (lengths compared up
\* to the resolution of the fixed-point positions).
C21_RelaxationConverges ==
    LET st == IF IsCloth THEN [ps |-> clothParticles, cs |-> clothConstraints]
                         ELSE [ps |-> particles, cs |-> constraints]
    IN \A j \in 1..Len(st.cs) : RepeatedTrendsToRest(st, j, Repeats)

\* a constraint more than a tenth of its rest length away from it, with one
\* endpoint pinned, on a cloth that a tick has moved or whose anchors were
\* pre-sagged
C21_Witness ==
    LET st == IF IsCloth THEN [ps |-> clothParticles, cs |-> clothConstraints]
                         ELSE [ps |-> particles, cs |-> constraints]
    IN /\ cmd.op \in {"update", "togglePin", "step"}
       /\ \E j \in 1..Len(st.cs) :
             /\ Relaxable(st, j)
             /\ st.ps[st.cs[j].p1 + 1].pinned # st.ps[st.cs[j].p2 + 1].pinned
             /\ 10 * Abs(LengthOf(st, j) - RestOf(st, j)) > RestOf(st, j)
             /\ Relaxed(st, j).ps # st.ps

\* u is a multiple of d, each coordinate rounded to the grid: every cross
\* product is within half a step per coordinate of d
Along(u, d) ==
    /\ 2 * Abs(u.x * d.y - u.y * d.x) <= Abs(d.x) + Abs(d.y)
    /\ 2 * Abs(u.y * d.z - u.z * d.y) <= Abs(d.y) + Abs(d.z)
    /\ 2 * Abs(u.z * d.x - u.x * d.z) <= Abs(d.z) + Abs(d.x)

\* what Constraint.satisfy may do to constraint j of the cloth st
SatisfySharesCorrection(st, j) ==
    LET c == st.cs[j]
        p1 == st.ps[c.p1 + 1]
        p2 == st.ps[c.p2 + 1]
        after == satisfy(st, j)
        delta == VSub(p2.position, p1.position)
        move1 == VSub(after.ps[c.p1 + 1].position, p1.position)
        move2 == VSub(after.ps[c.p2 + 1].position, p2.position)
        inv1 == IF p1.pinned THEN 0 ELSE p1.inverseMass
        inv2 == IF p2.pinned THEN 0 ELSE p2.inverseMass
        stretch == LengthOf(st, j) - c.restDistance
    IN /\ after.cs = st.cs
       /\ \A k \in 1..Len(st.ps) :
             /\ after.ps[k].pinned = st.ps[k].pinned
             /\ after.ps[k].previous = st.ps[k].previous
             /\ (st.ps[k].pinned \/ k \notin {c.p1 + 1, c.p2 + 1})
                   => after.ps[k].position = st.ps[k].position
       /\ (c.broken \/ inv1 + inv2 = 0 \/ VLenSq(delta) = 0) => after = st
       /\ Along(move1, delta) /\ Along(move2, delta)
       \* p1 moves towards p2 and p2 towards p1 when the constraint is
       \* stretched, away from each other when it is compressed
       /\ stretch > 0 => (VDot(move1, delta) >= 0 /\ VDot(move2, delta) <= 0)
       /\ stretch < 0 => (VDot(move1, delta) <= 0 /\ VDot(move2, delta) >= 0)
       \* shares inv1 / (inv1 + inv2) and inv2 / (inv1 + inv2)
       /\ VAdd(VScale(move1, inv2, 1), VScale(move2, inv1, 1)) = Vec(0, 0, 0)

\* C22: Constraint.satisfy never moves a pinned endpoint; it changes nothing
\* if both endpoints are pinned, if they coincide or if the constraint is
\* broken; otherwise the endpoints move along the connecting line in
\* opposite directions with the shares inv1 / (inv1 + inv2) and
\* inv2 / (inv1 + inv2).
C22_SatisfyByInverseMass ==
    IsCloth =>
       \A j \in ClothConstraintIds :
          SatisfySharesCorrection([ps |-> clothParticles,
                                   cs |-> clothConstraints], j)

\* satisfy would move the free endpoint of a constraint whose other endpoint
\* is pinned, and both endpoints of another; a third one has both its
\* endpoints pinned
C22_Witness ==
    /\ IsCloth
    /\ LET st == [ps |-> clothParticles, cs |-> clothConstraints]
           Moves(j, k) == satisfy(st, j).ps[k + 1].position
                             # clothParticles[k + 1].position
           Pinned(k) == clothParticles[k + 1].pinned
       IN /\ \E j \in ClothConstraintIds :
                /\ Pinned(clothConstraints[j].p1) /\ ~Pinned(clothConstraints[j].p2)
                /\ Moves(j, clothConstraints[j].p2)
          /\ \E j \in ClothConstraintIds :
                /\ ~Pinned(clothConstraints[j].p1) /\ ~Pinned(clothConstraints[j].p2)
                /\ Moves(j, clothConstraints[j].p1)
                /\ Moves(j, clothConstraints[j].p2)
          /\ \E j \in ClothConstraintIds :
                /\ Pinned(clothConstraints[j].p1) /\ Pinned(clothConstraints[j].p2)

\* C23: while physicsEnabled is false, step changes no particle and no
\* constraint; a successful startSimulation() enables physics, unpins every
\* particle outside the top row and leaves every pinned top-row particle
\* pinned; a step after that integrates: a particle that is not pinned has
\* its old position as previous position, a pinned one is at its pin
\* position, and every acceleration is back at zero.
C23_RelaxBeforeStart ==
    [][/\ (cmd'.op = "step" /\ ~physicsEnabled) =>
             UNCHANGED <<clothParticles, clothConstraints, physicsEnabled>>
       /\ (cmd'.op = "startSimulation" /\ returned'.ok) =>
             /\ physicsEnabled'
             /\ \A k \in ClothParticleIds :
                   clothParticles'[k].pinned =
                      (IsTopRow(k - 1) /\ clothParticles[k].pinned)
       /\ (cmd'.op = "step" /\ physicsEnabled) =>
             \A k \in ClothParticleIds :
                /\ clothParticles'[k].acceleration = Vec(0, 0, 0)
                /\ clothParticles'[k].previous =
                      IF clothParticles[k].pinned
                      THEN clothParticles[k].pinPosition
                      ELSE clothParticles[k].position]_vars

\* a step on the started cloth has let a particle outside the top row fall
C23_Witness ==
    /\ IsCloth /\ physicsEnabled
    /\ cmd.op = "step" /\ prevCmd.op = "startSimulation"
    /\ \E k \in ClothParticleIds :
          /\ ~IsTopRow(k - 1)
          /\ ~clothParticles[k].pinned
          /\ clothParticles[k].position.y < clothParticles[k].previous.y

\* the classification of one particle by a stroke from a to b of radius r:
\* before and after are the particle's records, cut the set after the call
SegmentClassified(before, after, cut, a, b, r) ==
    LET dSq == distPointToSegSq(before.position, a, b)
        shell == RDiv(r * 16, 10)
        falloff == Scale - RDiv((Isqrt(dSq) - r) * Scale, shell - r)
    IN /\ after.position = before.position
       /\ before.active =>
             /\ dSq <= r * r =>
                   (~after.active /\ before.index \in cut)
             /\ (r * r < dSq /\ dSq <= shell * shell) =>
                   /\ after.active
                   /\ after.cutFactor =
                         Min(before.cutFactor, Scale - RDiv(6 * falloff, 10))
             /\ dSq > shell * shell =>
                   (after.active /\ after.cutFactor = before.cutFactor)

\* C24 as stated: cutAlongSegment(start, end, radius) classifies every
\* particle that is active before the call by its distance d to the stroke:
\* d <= radius deactivates it and records its index in cutParticles, a
\* particle of the shell up to 1.6 * radius stays active with cutFactor
\* min(old, 1 - 0.6 * falloff), a particle beyond is left alone, and no
\* position changes.
C24_SegmentClassification ==
    [][(cmd'.op = "cutAlongSegment") =>
          \A k \in ParticleIds :
             SegmentClassified(particles[k], particles'[k], cutParticles',
                               cmd'.a, cmd'.b, cmd'.r)]_vars

\* C24, for a stroke whose two ends differ: the same classification.
C24_StrokeClassification ==
    [][(cmd'.op = "cutAlongSegment" /\ cmd'.a # cmd'.b) =>
          \A k \in ParticleIds :
             SegmentClassified(particles[k], particles'[k], cutParticles',
                               cmd'.a, cmd'.b, cmd'.r)]_vars

\* after a stroke with distinct ends the cloth has a particle the stroke
\* removed, one it weakened and an intact one beyond its shell
C24_Witness ==
    /\ IsPhysics
    /\ cmd.op = "cutAlongSegment" /\ cmd.a # cmd.b
    /\ \E k \in ParticleIds :
          /\ ~particles[k].active
          /\ particles[k].index \in cutParticles
          /\ distPointToSegSq(particles[k].position, cmd.a, cmd.b)
                <= cmd.r * cmd.r
    /\ \E k \in ParticleIds :
          /\ particles[k].active
          /\ particles[k].cutFactor < Scale
          /\ distPointToSegSq(particles[k].position, cmd.a, cmd.b)
                > cmd.r * cmd.r
    /\ \E k \in ParticleIds :
          /\ particles[k].active
          /\ particles[k].cutFactor = Scale
          /\ distPointToSegSq(particles[k].position, cmd.a, cmd.b)
                > RDiv(cmd.r * 16, 10) * RDiv(cmd.r * 16, 10)

\* C25: in every reachable state cutParticles is exactly the set of the
\* index values of the particles whose active flag is false.
C25_CutParticlesAreInactive ==
    IsPhysics =>
       cutParticles = {particles[k].index :
                          k \in {n \in ParticleIds : ~particles[n].active}}

\* two cuts in a row have removed particles and left others in place
C25_Witness ==
    /\ IsPhysics
    /\ cmd.op = "cutAlongSegment"
    /\ prevCmd.op \in {"cutOrganic", "cutAlongSegment"}
    /\ Cardinality(cutParticles) >= 2
    /\ \E k \in ParticleIds : particles[k].active
    /\ \E k \in ParticleIds :
          /\ ~particles[k].active
          /\ distPointToSegSq(particles[k].position, cmd.a, cmd.b)
                <= cmd.r * cmd.r

\* the indices of the pinned particles
PinnedSet(ps) == {k - 1 : k \in {n \in 1..Len(ps) : ps[n].pinned}}
TopRowSet == {i \in 0..(clothNumParticles - 1) : IsTopRow(i)}

\* before the start the lower rows are pinned; after it the pinned
\* particles are anchors of the top row, and there is one
PinsInOrder(ps, enabled) ==
    IF enabled
    THEN PinnedSet(ps) # {} /\ PinnedSet(ps) \subseteq TopRowSet
    ELSE \A i \in 0..(Len(ps) - 1) : ~IsTopRow(i) => ps[i + 1].pinned

\* C26: physicsEnabled never returns to false; before the start every
\* particle outside the top row is pinned; once physicsEnabled is true the
\* pinned set is a non-empty subset of the top row that no later togglePin,
\* step or startSimulation changes, and togglePin after the start returns
\* false and alters nothing.
C26_PinsAndStart ==
    [][IsCloth =>
          /\ physicsEnabled => physicsEnabled'
          /\ PinsInOrder(clothParticles, physicsEnabled)
          /\ PinsInOrder(clothParticles', physicsEnabled')
          /\ physicsEnabled =>
                PinnedSet(clothParticles') = PinnedSet(clothParticles)
          /\ (physicsEnabled /\ cmd'.op = "togglePin") =>
                /\ ~returned'.ok
                /\ UNCHANGED <<clothParticles, clothConstraints>>]_vars

\* togglePin on a top-row particle of the started cloth has just been
\* refused, with an anchor and a free top-row particle in place
C26_Witness ==
    /\ IsCloth /\ physicsEnabled
    /\ cmd.op = "togglePin" /\ IsTopRow(cmd.r)
    /\ prevCmd.op = "startSimulation"
    /\ ~returned.ok
    /\ PinnedSet(clothParticles) # {}
    /\ PinnedSet(clothParticles) # TopRowSet

\* what one update(deltaTime) makes of the current state
Updated(deltaTime, turbulence) ==
    update(particles, constraints, pivotPoints, time, deltaTime, turbulence)

\* C27: update(dt) leaves the position and previousPosition of every
\* particle whose active flag is false unchanged (anchor pinning, forces,
\* integration and constraint correction all pass it by): in every
\* reachable state, whatever frame time and turbulence the next update has.
C27_UpdateSkipsInactive ==
    IsPhysics =>
       \A deltaTime \in DeltaTimes, turbulence \in Turbulences :
          \A k \in ParticleIds :
             ~particles[k].active =>
                LET after == Updated(deltaTime, turbulence).particles[k]
                IN /\ after.position = particles[k].position
                   /\ after.previousPosition = particles[k].previousPosition

====
